---- MODULE Spec2Model ----
(***************************************************************************)
(* Model of voice-agent/agent.ts: the entry function of the agent defined  *)
(* with defineAgent (one invocation per job/room) and the module-level     *)
(* CLI guard that starts the worker with cli.runApp.                       *)
(***************************************************************************)
EXTENDS Integers, Sequences, FiniteSets, TLC

\* ---------------------------------------------------------------- bounds
NumJobs == 2        \* concurrent entry invocations (one per room)
MaxNameLen == 3     \* length of a file name below the root directory

Jobs == 1..NumJobs

\* ------------------------------------------------------ program literals
INSTRUCTIONS == "You are a helpful voice assistant. Keep responses concise."
MODEL == "gpt-4"
GREETING == "Hello! How can I help you today?"

VARIABLES
    pc,          \* position of each entry invocation
    calls,       \* per invocation: the external calls it has made, in order
    connected,   \* per context: the room connection is established
    agent,       \* const agent
    stt,         \* the STT argument of the session constructor
    llm,         \* the LLM argument of the session constructor
    tts,         \* the TTS argument of the session constructor
    session,     \* const session
    startArgs,   \* the argument of session.start
    started,     \* the awaited session.start has resolved
    utterance,   \* the greeting handed to session.say and its playback state
    error,       \* the failure that left the entry function, if any
    proc,        \* position of the node process that loads the module
    argv1,       \* process.argv[1]
    modulePath,  \* the path of the file this module was loaded from
    isMain,      \* the module is the file the process was started with
    runAppCalls, \* calls of cli.runApp
    serverAgent  \* ServerOptions.agent handed to cli.runApp

entryVars == <<pc, calls, connected, agent, stt, llm, tts, session,
               startArgs, started, utterance, error>>
moduleVars == <<proc, argv1, modulePath, isMain, runAppCalls, serverAgent>>
vars == <<pc, calls, connected, agent, stt, llm, tts, session, startArgs,
          started, utterance, error, proc, argv1, modulePath, isMain,
          runAppCalls, serverAgent>>

\* ------------------------------------------------------------- objects
\* An object is what its constructor was given: the class, the invocation
\* that allocated it, and the options supplied (a sequence of key/value).
Null == [class |-> "null", owner |-> 0, opts |-> <<>>]
Obj(c, j, o) == [class |-> c, owner |-> j, opts |-> o]

NoSession == [exists |-> FALSE, owner |-> 0, stt |-> Null, llm |-> Null, tts |-> Null]
NoStart == [called |-> FALSE, agent |-> Null, room |-> 0]
NoUtterance == [text |-> "", state |-> "none"]

\* ctx.room: every job context carries its own room
CtxRoom(j) == j

Count(j, op) == Cardinality({i \in DOMAIN calls[j] : calls[j][i] = op})
\* the first position of op in the calls of j, 0 when absent
Pos(j, op) ==
    IF Count(j, op) = 0 THEN 0
    ELSE CHOOSE i \in DOMAIN calls[j] :
            /\ calls[j][i] = op
            /\ \A k \in DOMAIN calls[j] : calls[j][k] = op => i <= k

\* ------------------------------------------------------------- strings
\* A string is a sequence of one-character strings.
FilePrefix == <<"f", "i", "l", "e", ":", "/", "/">>
PathChars == {" ", "%", "2", "0"}

RECURSIVE NamesOfLen(_)
NamesOfLen(n) ==
    IF n = 0 THEN {<<>>}
    ELSE {Append(s, c) : s \in NamesOfLen(n - 1), c \in PathChars}

\* absolute paths of files in the root directory
Paths == {<<"/">> \o s : s \in UNION {NamesOfLen(n) : n \in 1..MaxNameLen}}

\* pathToFileURL as the module loader applies it to produce import.meta.url:
\* a percent sign and a space are percent-encoded
EncodeChar(c) ==
    IF c = "%" THEN <<"%", "2", "5">>
    ELSE IF c = " " THEN <<"%", "2", "0">>
    ELSE <<c>>

RECURSIVE EncodePath(_)
EncodePath(p) ==
    IF p = <<>> THEN <<>> ELSE EncodeChar(Head(p)) \o EncodePath(Tail(p))

ImportMetaUrl(path) == FilePrefix \o EncodePath(path)

\* percent-decoding of a URL path
RECURSIVE DecodePath(_)
DecodePath(u) ==
    IF u = <<>> THEN <<>>
    ELSE IF Len(u) >= 3 /\ u[1] = "%" /\ u[2] = "2" /\ u[3] = "0"
         THEN <<" ">> \o DecodePath(SubSeq(u, 4, Len(u)))
    ELSE IF Len(u) >= 3 /\ u[1] = "%" /\ u[2] = "2" /\ u[3] = "5"
         THEN <<"%">> \o DecodePath(SubSeq(u, 4, Len(u)))
    ELSE <<Head(u)>> \o DecodePath(Tail(u))

fileURLToPath(url) == DecodePath(SubSeq(url, Len(FilePrefix) + 1, Len(url)))

\* the condition of the CLI guard
Guard(url, arg) == url = FilePrefix \o arg

\* ---------------------------------------------------------------- Init
Init ==
    /\ pc = [j \in Jobs |-> "idle"]
    /\ calls = [j \in Jobs |-> <<>>]
    /\ connected = [j \in Jobs |-> FALSE]
    /\ agent = [j \in Jobs |-> Null]
    /\ stt = [j \in Jobs |-> Null]
    /\ llm = [j \in Jobs |-> Null]
    /\ tts = [j \in Jobs |-> Null]
    /\ session = [j \in Jobs |-> NoSession]
    /\ startArgs = [j \in Jobs |-> NoStart]
    /\ started = [j \in Jobs |-> FALSE]
    /\ utterance = [j \in Jobs |-> NoUtterance]
    /\ error = [j \in Jobs |-> "none"]
    /\ proc = "off"
    /\ argv1 = <<>>
    /\ modulePath = <<>>
    /\ isMain = FALSE
    /\ runAppCalls = 0
    /\ serverAgent = <<>>

\* -------------------------------------------------------- entry function
\* mutation: ctx.connect() is called but not awaited
InvokeNoAwait(j) ==
    /\ pc[j] = "idle"
    /\ calls' = [calls EXCEPT ![j] = Append(@, "connect")]
    /\ pc' = [pc EXCEPT ![j] = "new_agent"]
    /\ UNCHANGED <<connected, agent, stt, llm, tts, session, startArgs,
                   started, utterance, error>>
    /\ UNCHANGED moduleVars

\* entry is invoked with ctx: it calls ctx.connect() and suspends
Invoke(j) ==
    /\ pc[j] = "idle"
    /\ calls' = [calls EXCEPT ![j] = Append(@, "connect")]
    /\ pc' = [pc EXCEPT ![j] = "await_connect"]
    /\ UNCHANGED <<connected, agent, stt, llm, tts, session, startArgs,
                   started, utterance, error>>
    /\ UNCHANGED moduleVars

\* the transport confirms the connection
ConnectResolve(j) ==
    /\ pc[j] = "await_connect"
    /\ connected' = [connected EXCEPT ![j] = TRUE]
    /\ pc' = [pc EXCEPT ![j] = "new_agent"]
    /\ UNCHANGED <<calls, agent, stt, llm, tts, session, startArgs,
                   started, utterance, error>>
    /\ UNCHANGED moduleVars

\* mutation: a failed connect is caught and attempted again
ConnectRejectRetry(j) ==
    /\ pc[j] = "await_connect"
    /\ calls' = [calls EXCEPT ![j] = Append(@, "connect")]
    /\ UNCHANGED <<pc, connected, agent, stt, llm, tts, session, startArgs,
                   started, utterance, error>>
    /\ UNCHANGED moduleVars

\* mutation: a failed connect is caught and logged, and entry carries on
ConnectRejectSwallow(j) ==
    /\ pc[j] = "await_connect"
    /\ error' = [error EXCEPT ![j] = "connect"]
    /\ pc' = [pc EXCEPT ![j] = "new_agent"]
    /\ UNCHANGED <<calls, connected, agent, stt, llm, tts, session,
                   startArgs, started, utterance>>
    /\ UNCHANGED moduleVars

\* the connection fails: no handler, the rejection leaves entry
ConnectReject(j) ==
    /\ pc[j] = "await_connect"
    /\ error' = [error EXCEPT ![j] = "connect"]
    /\ pc' = [pc EXCEPT ![j] = "thrown"]
    /\ UNCHANGED <<calls, connected, agent, stt, llm, tts, session,
                   startArgs, started, utterance>>
    /\ UNCHANGED moduleVars

\* mutation: the agent is constructed without instructions
NewAgentNoInstructions(j) ==
    /\ pc[j] = "new_agent"
    /\ agent' = [agent EXCEPT ![j] = Obj("Agent", j, <<>>)]
    /\ calls' = [calls EXCEPT ![j] = Append(@, "new Agent")]
    /\ pc' = [pc EXCEPT ![j] = "new_stt"]
    /\ UNCHANGED <<connected, stt, llm, tts, session, startArgs, started,
                   utterance, error>>
    /\ UNCHANGED moduleVars

NewAgent(j) ==
    /\ pc[j] = "new_agent"
    /\ agent' = [agent EXCEPT ![j] =
                    Obj("Agent", j, << <<"instructions", INSTRUCTIONS>> >>)]
    /\ calls' = [calls EXCEPT ![j] = Append(@, "new Agent")]
    /\ pc' = [pc EXCEPT ![j] = "new_stt"]
    /\ UNCHANGED <<connected, stt, llm, tts, session, startArgs, started,
                   utterance, error>>
    /\ UNCHANGED moduleVars

NewSTT(j) ==
    /\ pc[j] = "new_stt"
    /\ stt' = [stt EXCEPT ![j] = Obj("openai.STT", j, <<>>)]
    /\ calls' = [calls EXCEPT ![j] = Append(@, "new STT")]
    /\ pc' = [pc EXCEPT ![j] = "new_llm"]
    /\ UNCHANGED <<connected, agent, llm, tts, session, startArgs, started,
                   utterance, error>>
    /\ UNCHANGED moduleVars

\* mutation: the LLM is constructed with the plugin's default model
NewLLMDefaultModel(j) ==
    /\ pc[j] = "new_llm"
    /\ llm' = [llm EXCEPT ![j] = Obj("openai.LLM", j, <<>>)]
    /\ calls' = [calls EXCEPT ![j] = Append(@, "new LLM")]
    /\ pc' = [pc EXCEPT ![j] = "new_tts"]
    /\ UNCHANGED <<connected, agent, stt, tts, session, startArgs, started,
                   utterance, error>>
    /\ UNCHANGED moduleVars

NewLLM(j) ==
    /\ pc[j] = "new_llm"
    /\ llm' = [llm EXCEPT ![j] = Obj("openai.LLM", j, << <<"model", MODEL>> >>)]
    /\ calls' = [calls EXCEPT ![j] = Append(@, "new LLM")]
    /\ pc' = [pc EXCEPT ![j] = "new_tts"]
    /\ UNCHANGED <<connected, agent, stt, tts, session, startArgs, started,
                   utterance, error>>
    /\ UNCHANGED moduleVars

NewTTS(j) ==
    /\ pc[j] = "new_tts"
    /\ tts' = [tts EXCEPT ![j] = Obj("elevenlabs.TTS", j, <<>>)]
    /\ calls' = [calls EXCEPT ![j] = Append(@, "new TTS")]
    /\ pc' = [pc EXCEPT ![j] = "new_session"]
    /\ UNCHANGED <<connected, agent, stt, llm, session, startArgs, started,
                   utterance, error>>
    /\ UNCHANGED moduleVars

\* a provider constructor throws: no handler, the exception leaves entry
ProviderThrow(j) ==
    /\ pc[j] \in {"new_stt", "new_llm", "new_tts"}
    /\ calls' = [calls EXCEPT ![j] =
                    Append(@, CASE pc[j] = "new_stt" -> "new STT"
                                [] pc[j] = "new_llm" -> "new LLM"
                                [] OTHER -> "new TTS")]
    /\ error' = [error EXCEPT ![j] = "provider"]
    /\ pc' = [pc EXCEPT ![j] = "thrown"]
    /\ UNCHANGED <<connected, agent, stt, llm, tts, session, startArgs,
                   started, utterance>>
    /\ UNCHANGED moduleVars

NewSession(j) ==
    /\ pc[j] = "new_session"
    /\ session' = [session EXCEPT ![j] =
                      [exists |-> TRUE, owner |-> j,
                       stt |-> stt[j], llm |-> llm[j], tts |-> tts[j]]]
    /\ calls' = [calls EXCEPT ![j] = Append(@, "new AgentSession")]
    /\ pc' = [pc EXCEPT ![j] = "call_start"]
    /\ UNCHANGED <<connected, agent, stt, llm, tts, startArgs, started,
                   utterance, error>>
    /\ UNCHANGED moduleVars

\* mutation: the session is started against a room kept at module level
CallStartSharedRoom(j) ==
    /\ pc[j] = "call_start"
    /\ startArgs' = [startArgs EXCEPT ![j] =
                        [called |-> TRUE, agent |-> agent[j], room |-> CtxRoom(1)]]
    /\ calls' = [calls EXCEPT ![j] = Append(@, "start")]
    /\ pc' = [pc EXCEPT ![j] = "await_start"]
    /\ UNCHANGED <<connected, agent, stt, llm, tts, session, started,
                   utterance, error>>
    /\ UNCHANGED moduleVars

\* session.start({agent, room: ctx.room}) is called and entry suspends
CallStart(j) ==
    /\ pc[j] = "call_start"
    /\ startArgs' = [startArgs EXCEPT ![j] =
                        [called |-> TRUE, agent |-> agent[j], room |-> CtxRoom(j)]]
    /\ calls' = [calls EXCEPT ![j] = Append(@, "start")]
    /\ pc' = [pc EXCEPT ![j] = "await_start"]
    /\ UNCHANGED <<connected, agent, stt, llm, tts, session, started,
                   utterance, error>>
    /\ UNCHANGED moduleVars

StartResolve(j) ==
    /\ pc[j] = "await_start"
    /\ started' = [started EXCEPT ![j] = TRUE]
    /\ pc' = [pc EXCEPT ![j] = "say"]
    /\ UNCHANGED <<calls, connected, agent, stt, llm, tts, session,
                   startArgs, utterance, error>>
    /\ UNCHANGED moduleVars

\* mutation: a failed start is caught and the greeting is spoken anyway
StartRejectSwallow(j) ==
    /\ pc[j] = "await_start"
    /\ error' = [error EXCEPT ![j] = "start"]
    /\ pc' = [pc EXCEPT ![j] = "say"]
    /\ UNCHANGED <<calls, connected, agent, stt, llm, tts, session,
                   startArgs, started, utterance>>
    /\ UNCHANGED moduleVars

\* mutation: a failed start disconnects the room before rethrowing
StartRejectCleanup(j) ==
    /\ pc[j] = "await_start"
    /\ error' = [error EXCEPT ![j] = "start"]
    /\ connected' = [connected EXCEPT ![j] = FALSE]
    /\ calls' = [calls EXCEPT ![j] = Append(@, "disconnect")]
    /\ pc' = [pc EXCEPT ![j] = "thrown"]
    /\ UNCHANGED <<agent, stt, llm, tts, session, startArgs, started,
                   utterance>>
    /\ UNCHANGED moduleVars

\* session.start fails: no handler, the rejection leaves entry
StartReject(j) ==
    /\ pc[j] = "await_start"
    /\ error' = [error EXCEPT ![j] = "start"]
    /\ pc' = [pc EXCEPT ![j] = "thrown"]
    /\ UNCHANGED <<calls, connected, agent, stt, llm, tts, session,
                   startArgs, started, utterance>>
    /\ UNCHANGED moduleVars

\* mutation: session.say(...) is awaited until the greeting has been played
SayAwaited(j) ==
    /\ pc[j] = "say"
    /\ utterance' = [utterance EXCEPT ![j] = [text |-> GREETING, state |-> "queued"]]
    /\ calls' = [calls EXCEPT ![j] = Append(@, "say")]
    /\ pc' = [pc EXCEPT ![j] = "await_say"]
    /\ UNCHANGED <<connected, agent, stt, llm, tts, session, startArgs,
                   started, error>>
    /\ UNCHANGED moduleVars

\* session.say(...) is not awaited: the greeting is queued and entry returns
Say(j) ==
    /\ pc[j] = "say"
    /\ utterance' = [utterance EXCEPT ![j] = [text |-> GREETING, state |-> "queued"]]
    /\ calls' = [calls EXCEPT ![j] = Append(@, "say")]
    /\ pc' = [pc EXCEPT ![j] = "returned"]
    /\ UNCHANGED <<connected, agent, stt, llm, tts, session, startArgs,
                   started, error>>
    /\ UNCHANGED moduleVars

\* the session synthesises and plays the queued greeting on its own
Playback(j) ==
    /\ utterance[j].state = "queued"
    /\ utterance' = [utterance EXCEPT ![j].state = "played"]
    /\ UNCHANGED <<pc, calls, connected, agent, stt, llm, tts, session,
                   startArgs, started, error>>
    /\ UNCHANGED moduleVars

\* the steps of invocation j that the code or the awaited framework takes
Proceed(j) ==
    \/ ConnectResolve(j)
    \/ ConnectReject(j)
    \/ NewAgent(j)
    \/ NewSTT(j)
    \/ NewLLM(j)
    \/ NewTTS(j)
    \/ ProviderThrow(j)
    \/ NewSession(j)
    \/ CallStart(j)
    \/ StartResolve(j)
    \/ StartReject(j)
    \/ Say(j)

Next ==
    \E j \in Jobs :
        \/ Invoke(j)
        \/ Proceed(j)
        \/ Playback(j)

Spec == Init /\ [][Next]_vars

\* every awaited call settles and the code's own statements run
FairSpec == Spec /\ \A j \in Jobs : WF_vars(Proceed(j))

\* ------------------------------------------------- module-level CLI guard
\* node is started with a file: process.argv[1] is its absolute path
StartProcess(p) ==
    /\ proc = "off"
    /\ argv1' = p
    /\ proc' = "started"
    /\ UNCHANGED <<modulePath, isMain, runAppCalls, serverAgent>>
    /\ UNCHANGED entryVars

\* the top level of the module runs once when the file at path m is loaded
ModuleBody(m, main) ==
    /\ modulePath' = m
    /\ isMain' = main
    /\ IF Guard(ImportMetaUrl(m), argv1)
       THEN /\ runAppCalls' = runAppCalls + 1
            /\ serverAgent' = fileURLToPath(ImportMetaUrl(m))
       ELSE UNCHANGED <<runAppCalls, serverAgent>>
    /\ proc' = "loaded"
    /\ UNCHANGED argv1
    /\ UNCHANGED entryVars

\* the file the process was started with is this module
LoadAsMain ==
    /\ proc = "started"
    /\ ModuleBody(argv1, TRUE)

\* the process was started with another file, which imports this module
LoadAsImport(m) ==
    /\ proc = "started"
    /\ m # argv1
    /\ ModuleBody(m, FALSE)

NextModule ==
    \/ \E p \in Paths : StartProcess(p)
    \/ LoadAsMain
    \/ \E m \in Paths : LoadAsImport(m)

SpecModule == Init /\ [][NextModule]_vars

\* ================================================================ claims
Term(j) == pc[j] \in {"returned", "thrown"}

\* everything invocation j owns
JobState(j) == <<pc[j], calls[j], connected[j], agent[j], stt[j], llm[j],
                 tts[j], session[j], startArgs[j], started[j], utterance[j],
                 error[j]>>

\* op1 was called, and before the first call of op2
Before(j, op1, op2) == Pos(j, op1) > 0 /\ Pos(j, op1) < Pos(j, op2)

\* C1: an invocation calls ctx.connect() exactly once, and a provider or a
\* session is constructed only after that call was made and has completed.
C1_ConnectOnceBeforeSession ==
    \A j \in Jobs :
        /\ Count(j, "connect") = (IF pc[j] = "idle" THEN 0 ELSE 1)
        /\ (session[j].exists \/ Count(j, "new AgentSession") > 0
              \/ stt[j] # Null \/ llm[j] # Null \/ tts[j] # Null)
             => /\ connected[j]
                /\ Before(j, "connect", "new STT")
        /\ session[j].exists => Before(j, "connect", "new AgentSession")

C1_Witness ==
    \E j \in Jobs : session[j].exists /\ connected[j] /\ Count(j, "connect") = 1

\* C2: the greeting is enqueued at most once and only once the awaited
\* session.start has resolved; an invocation that ends with connect and start
\* both resolved has enqueued it exactly once.
C2_GreetingOnceAfterStart ==
    \A j \in Jobs :
        /\ Count(j, "say") <= 1
        /\ (Count(j, "say") > 0 \/ utterance[j].state # "none")
             => /\ started[j]
                /\ error[j] = "none"
                /\ Before(j, "start", "say")
        /\ (Term(j) /\ connected[j] /\ started[j])
             => /\ Count(j, "say") = 1
                /\ utterance[j].state # "none"

C2_Witness ==
    \E j \in Jobs : pc[j] = "returned" /\ Count(j, "say") = 1 /\ started[j]

\* C3: session.start is never called before connect has resolved, and the
\* session is never constructed before its STT, LLM and TTS were constructed.
C3_StartAfterConnect_ProvidersFirst ==
    \A j \in Jobs :
        /\ (startArgs[j].called \/ Count(j, "start") > 0 \/ started[j])
             => connected[j]
        /\ session[j].exists
             => /\ stt[j] # Null /\ llm[j] # Null /\ tts[j] # Null
                /\ Before(j, "new STT", "new AgentSession")
                /\ Before(j, "new LLM", "new AgentSession")
                /\ Before(j, "new TTS", "new AgentSession")

C3_Witness ==
    \E j \in Jobs : startArgs[j].called /\ session[j].exists /\ stt[j] # Null

\* C4: a constructed session holds one STT built with no options, one LLM
\* built with model "gpt-4" and one TTS built with no options, each of them
\* constructed once by the same invocation.
C4_SessionProviders ==
    \A j \in Jobs :
        session[j].exists
          => /\ session[j].stt = [class |-> "openai.STT", owner |-> j, opts |-> <<>>]
             /\ session[j].llm = [class |-> "openai.LLM", owner |-> j,
                                  opts |-> << <<"model", "gpt-4">> >>]
             /\ session[j].tts = [class |-> "elevenlabs.TTS", owner |-> j, opts |-> <<>>]
             /\ Count(j, "new STT") = 1
             /\ Count(j, "new LLM") = 1
             /\ Count(j, "new TTS") = 1
             /\ Count(j, "new AgentSession") = 1

C4_Witness ==
    \E j \in Jobs : session[j].exists /\ session[j].llm.opts # <<>>

\* C5: once the module is loaded, cli.runApp has been called exactly when the
\* module is the file the process was started with.
C5_RunAppIffMain ==
    proc = "loaded" => (runAppCalls = 1 <=> isMain)

\* C6: a failed connect leaves entry as that failure, with connect the only
\* call made: no agent, provider or session, no start, no greeting, no retry.
C6_ConnectFailurePropagates ==
    \A j \in Jobs :
        error[j] = "connect"
          => /\ pc[j] = "thrown"
             /\ calls[j] = <<"connect">>
             /\ ~connected[j]
             /\ agent[j] = Null /\ stt[j] = Null /\ llm[j] = Null /\ tts[j] = Null
             /\ ~session[j].exists
             /\ ~startArgs[j].called /\ ~started[j]
             /\ utterance[j].state = "none"

C6_Witness ==
    \E j \in Jobs : error[j] = "connect" /\ pc[j] = "thrown"

\* C7: a provider or start failure after a successful connect leaves entry as
\* that failure: no greeting, start called at most once, and the room
\* connection left established (no disconnect).
C7_LateFailurePropagates ==
    \A j \in Jobs :
        error[j] \in {"provider", "start"}
          => /\ pc[j] = "thrown"
             /\ connected[j]
             /\ Count(j, "disconnect") = 0
             /\ Count(j, "connect") = 1
             /\ Count(j, "say") = 0 /\ utterance[j].state = "none"
             /\ Count(j, "start") = (IF error[j] = "start" THEN 1 ELSE 0)
             /\ ~started[j]
             /\ (error[j] = "provider") => ~session[j].exists

C7_Witness ==
    \E j, k \in Jobs :
        /\ error[j] = "start" /\ connected[j]
        /\ error[k] = "provider" /\ connected[k]

\* C8: under every interleaving a step changes the state of one invocation
\* only, every invocation uses the agent, providers, session and room of its
\* own context, and connect, start and greeting keep their order and happen
\* at most once in each invocation.
C8_Owned ==
    \A j \in Jobs :
        /\ agent[j] # Null => agent[j].owner = j
        /\ session[j].exists
             => /\ session[j].owner = j
                /\ session[j].stt.owner = j
                /\ session[j].llm.owner = j
                /\ session[j].tts.owner = j
        /\ startArgs[j].called
             => /\ startArgs[j].agent.owner = j
                /\ startArgs[j].room = CtxRoom(j)
        /\ Count(j, "connect") <= 1 /\ Count(j, "start") <= 1 /\ Count(j, "say") <= 1
        /\ Count(j, "start") > 0 => (connected[j] /\ Before(j, "connect", "start"))
        /\ Count(j, "say") > 0 => (started[j] /\ Before(j, "start", "say"))

C8_Local ==
    \A j, k \in Jobs :
        (JobState(j)' # JobState(j) /\ JobState(k)' # JobState(k)) => j = k

C8_Independent == []C8_Owned /\ [][C8_Local]_vars

C8_Witness ==
    \E j, k \in Jobs :
        /\ j # k
        /\ pc[j] = "returned" /\ startArgs[j].room = CtxRoom(j)
        /\ pc[k] = "thrown" /\ error[k] = "connect"

Rank(p) ==
    CASE p = "idle" -> 0
      [] p = "await_connect" -> 1
      [] p = "new_agent" -> 2
      [] p = "new_stt" -> 3
      [] p = "new_llm" -> 4
      [] p = "new_tts" -> 5
      [] p = "new_session" -> 6
      [] p = "call_start" -> 7
      [] p = "await_start" -> 8
      [] p = "say" -> 9
      [] OTHER -> 10

C10_Forward ==
    \A j \in Jobs :
        /\ calls[j]' # calls[j] => Rank(pc[j]') > Rank(pc[j])
        /\ pc[j]' # pc[j] => Rank(pc[j]') > Rank(pc[j])
        /\ Count(j, "say")' > Count(j, "say")
             => (pc[j]' = "returned" /\ utterance[j]'.state = "queued")

C10_Terminates ==
    /\ \A j \in Jobs : (pc[j] # "idle") ~> Term(j)
    /\ [][C10_Forward]_vars

C10_Witness ==
    \E j \in Jobs : pc[j] = "returned" /\ utterance[j].state = "queued"

====
